---- MODULE Spec2Model ----
(***************************************************************************)
(* Model of the PostgreSQL migration engine, src/engines/postgresql.rs.    *)
(*                                                                         *)
(* The engine owns one session.  The database behind the session holds     *)
(* the bookkeeping table (it may not exist yet, and holds one row per      *)
(* applied migration) and the schema the migration batches act on.  Every  *)
(* engine operation is synchronous and runs to its return before the next  *)
(* one starts, so each operation is one action; the steps it issued on the *)
(* session are kept, in order, in `steps`.  The record of a call (its      *)
(* arguments, what it returned, the state it started from) stays until the *)
(* runner takes the result and goes on to its next operation.              *)
(*                                                                         *)
(* A batch is a sequence of statements.  A statement creates or drops a    *)
(* schema object; creating an object that exists and dropping one that     *)
(* does not are errors, as in the backend, so a batch can fail at any of   *)
(* its statements.  Batches do not touch the bookkeeping table and hold no *)
(* transaction control statements.                                         *)
(***************************************************************************)
EXTENDS Integers, Sequences, FiniteSets, TLC

VARIABLES
    tableExists,  \* the bookkeeping table has been created
    rows,         \* committed rows of the bookkeeping table
    db,           \* committed schema: the objects the batches created
    call,         \* the last create_migration_table / migrate / rollback call
    result,       \* what that call returned
    steps,        \* the steps that call issued on the session, in order
    rendered,     \* the diagnostic renderer's invocations during that call
    applied,      \* number of statements of the batch that ran without error
    rows0,        \* rows when that call started
    db0,          \* db when that call started
    txOpen,       \* the session has an open transaction
    listing,      \* the last get_migrations / get_migrations_with_hashes call
    failedAt,     \* the step at which that call failed, "none" if none did
    lastOk,       \* per version, the last call naming it that returned Ok
    conn,         \* Postgresql::new: its position, attempts, log and result
    diag          \* print_error_postgres: its arguments and what it printed

vars == <<tableExists, rows, db, call, result, steps, rendered, applied,
          rows0, db0, txOpen, listing, failedAt, lastOk, conn, diag>>

\* What the operations of a constructed engine leave alone.
outside == <<conn, diag>>

(***************************************************************************)
(* Bounds of the model.                                                    *)
(***************************************************************************)
MaxBatch == 3

\* Migration identifiers are strings of digits; the backend orders them as
\* strings, so "10" sorts before "2".
Versions == {<<1, 0>>, <<2>>}
Types == {"up", "seed"}
\* A file path is its sequence of components.
Files == {<<"m", "a.sql">>, <<"m", "b.sql">>}
Stmts == {"create_a", "drop_a"}

SqlTexts == UNION {[1..n -> Stmts] : n \in 1..MaxBatch}

(***************************************************************************)
(* The backend's errors and the values a call returns.                     *)
(***************************************************************************)
NoError == [class |-> "none", code |-> "", at |-> 0]
DbError(code, at) == [class |-> "db", code |-> code, at |-> at]
ConnError == [class |-> "connection", code |-> "", at |-> 0]

Ok == [kind |-> "Ok", err |-> NoError]
NoResult == [kind |-> "none", err |-> NoError]
\* Err(Box::new(e)): the backend's own error value
Backend(e) == [kind |-> "Backend", err |-> e]

EngineError == [kind |-> "EngineError", err |-> NoError]

NoCall == [op |-> "none", file |-> <<>>, version |-> <<>>, type |-> "",
           sql |-> <<>>, skip |-> FALSE]
NoListing == [op |-> "none", type |-> "", res |-> "none", val |-> <<>>]

(***************************************************************************)
(* The backend: statements, batches and the bookkeeping table.             *)
(***************************************************************************)
\* One statement of a batch, run against schema d.
ExecStmt(d, s) ==
    IF s = "create_a"
    THEN IF "a" \in d THEN [ok |-> FALSE, db |-> d, code |-> "42P07"]
                      ELSE [ok |-> TRUE, db |-> d \cup {"a"}, code |-> ""]
    ELSE IF "a" \in d THEN [ok |-> TRUE, db |-> d \ {"a"}, code |-> ""]
                      ELSE [ok |-> FALSE, db |-> d, code |-> "42P01"]

\* batch_execute(sql): the statements run in order from statement i on and
\* the first failure ends the batch.  done counts the statements that ran
\* without error, db is the schema they left.
RECURSIVE BatchFrom(_, _, _)
BatchFrom(d, sql, i) ==
    IF i > Len(sql)
    THEN [ok |-> TRUE, db |-> d, done |-> Len(sql), err |-> NoError]
    ELSE LET r == ExecStmt(d, sql[i])
         IN  IF r.ok THEN BatchFrom(r.db, sql, i + 1)
             ELSE [ok |-> FALSE, db |-> d, done |-> i - 1,
                   err |-> DbError(r.code, i)]

BatchExecute(d, sql) == BatchFrom(d, sql, 1)

\* format!("{:x}", md5::compute(&migration)): a fingerprint of the whole
\* text, here a one-bit checksum over its statements and its length, so
\* that different texts can share a fingerprint.
StmtCode(s) == IF s = "create_a" THEN 1 ELSE 2

RECURSIVE Md5From(_, _, _)
Md5From(sql, i, h) ==
    IF i > Len(sql) THEN h
    ELSE Md5From(sql, i + 1, (h * 3 + StmtCode(sql[i])) % 2)

Digest(sql) == Md5From(sql, 1, Len(sql) % 2)

\* format!("{}", &file.display()): the components joined by the separator
RECURSIVE Display(_)
Display(file) ==
    IF Len(file) = 0 THEN ""
    ELSE IF Len(file) = 1 THEN file[1]
    ELSE file[1] \o "/" \o Display(Tail(file))

Record(version, hash, mtype, fileName) ==
    [migration |-> version, hash |-> hash, type |-> mtype,
     file_name |-> fileName]

Recorded(rws, version) == \E r \in rws : r.migration = version

\* A table without the primary key on "migration".
InsertErrorNoKey(exists, rws, version) ==
    IF ~exists THEN [class |-> "db", code |-> "42P01", at |-> 0]
    ELSE [class |-> "none", code |-> "", at |-> 0]

\* INSERT INTO "<table>" (...) VALUES ($1, $2, $3, $4, NOW()): fails when
\* the table is missing and on the primary key "migration".
InsertError(exists, rws, version) ==
    IF ~exists THEN DbError("42P01", 0)
    ELSE IF Recorded(rws, version) THEN DbError("23505", 0)
    ELSE NoError

InsertRows(rws, version, hash, mtype, fileName) ==
    rws \cup {Record(version, hash, mtype, fileName)}

\* DELETE FROM "<table>" WHERE "migration" = $1: fails when the table is
\* missing; matching no row is not an error.
DeleteError(exists) == IF ~exists THEN DbError("42P01", 0) ELSE NoError

\* DELETE without its WHERE clause.
DeleteRowsAll(rws, version) == {}

DeleteRows(rws, version) == {r \in rws : r.migration # version}

\* String order of two identifiers (sequences of digits).
RECURSIVE StrLessFrom(_, _, _)
StrLessFrom(a, b, i) ==
    IF i > Len(a) THEN i <= Len(b)
    ELSE IF i > Len(b) THEN FALSE
    ELSE IF a[i] # b[i] THEN a[i] < b[i]
    ELSE StrLessFrom(a, b, i + 1)

StrLess(a, b) == StrLessFrom(a, b, 1)

\* ORDER BY "migration" desc over a set of rows.
RECURSIVE OrderDesc(_)
OrderDesc(rws) ==
    IF rws = {} THEN <<>>
    ELSE LET top == CHOOSE r \in rws :
                        \A q \in rws : ~StrLess(r.migration, q.migration)
         IN  <<top>> \o OrderDesc(rws \ {top})

Column(rs, f) == [i \in 1..Len(rs) |-> rs[i][f]]

\* ORDER BY "migration" asc
SelectMigrationsAsc(rws) ==
    LET rs == OrderDesc(rws)
    IN  [i \in 1..Len(rs) |-> rs[Len(rs) + 1 - i].migration]

\* SELECT "migration" FROM "<table>" ORDER BY "migration" desc
SelectMigrations(rws) == Column(OrderDesc(rws), "migration")

\* SELECT "migration", "hash", "file_name" FROM "<table>"
\*   WHERE "type" = $1 ORDER BY "migration" desc
SelectWithHashes(rws, mtype) ==
    LET rs == OrderDesc({r \in rws : r.type = mtype})
    IN  [i \in 1..Len(rs) |->
            <<rs[i].migration, rs[i].hash, rs[i].file_name>>]

(***************************************************************************)
(* The steps of one migrate or rollback call.  s is the call in progress:  *)
(* c its arguments, db and rows what the session sees, cdb and crows what  *)
(* is committed, txOpen whether the call holds a transaction.              *)
(***************************************************************************)
Start(c, exists, fault, keep) ==
    [c |-> c, exists |-> exists, fault |-> fault, keep |-> keep,
     db |-> db, rows |-> rows, cdb |-> db, crows |-> rows,
     txOpen |-> FALSE, result |-> NoResult, steps |-> <<>>,
     rendered |-> <<>>, applied |-> 0, failedAt |-> "none"]

Issued(s, name) == [s EXCEPT !.steps = Append(@, name)]

\* A write on the session: inside a transaction it stays uncommitted.
Write(s, newDb, newRows) ==
    [s EXCEPT !.db = newDb, !.rows = newRows,
              !.cdb = IF s.txOpen THEN @ ELSE newDb,
              !.crows = IF s.txOpen THEN @ ELSE newRows]

\* The step issued last fails and the call leaves with r.
Fail(s, r) == [s EXCEPT !.result = r, !.failedAt = s.steps[Len(s.steps)]]

\* print_error_postgres(migration, e)
PrintErrorPostgres(s, content, e) ==
    [s EXCEPT !.rendered = Append(@, [content |-> content, error |-> e])]

\* The backend's error passed through.
BatchErrorPassed(e) == [kind |-> "Backend", err |-> e]

\* What the call returns when its batch failed with backend error e.
BatchErrorValue(e) == EngineError

\* self.client.transaction()
StepBegin(s) ==
    IF s.fault = "begin" THEN Fail(Issued(s, "begin"), Backend(ConnError))
    ELSE [Issued(s, "begin") EXCEPT !.txOpen = TRUE]

\* batch_execute(migration) and its Err arm.  Outside a transaction the
\* backend either keeps what the statements before the failing one did
\* (each committed on its own) or undoes them with the batch (the batch ran
\* as one implicit unit): s.keep is the backend's choice.
StepBatch(s) ==
    LET b == BatchExecute(s.db, s.c.sql)
        t == [Issued(s, "batch") EXCEPT !.applied = b.done]
    IN  IF b.ok THEN Write(t, b.db, t.rows)
        ELSE LET u == IF s.txOpen \/ s.keep THEN Write(t, b.db, t.rows)
                      ELSE t
             IN  Fail(PrintErrorPostgres(u, s.c.sql, b.err),
                      BatchErrorValue(b.err))

\* The hash taken of the file path instead of the text.
StepInsertHashOfPath(s) ==
    LET e == IF s.fault = "bookkeeping" THEN ConnError
             ELSE InsertError(s.exists, s.rows, s.c.version)
        t == Issued(s, "insert")
    IN  IF e # NoError THEN Fail(t, Backend(e))
        ELSE Write(t, t.db, InsertRows(t.rows, s.c.version, Digest(s.c.file),
                                       s.c.type, Display(s.c.file)))

\* query(&insert, &[&version, &hash, &migration_type, &file_name])
StepInsert(s) ==
    LET e == IF s.fault = "bookkeeping" THEN ConnError
             ELSE InsertError(s.exists, s.rows, s.c.version)
        t == Issued(s, "insert")
    IN  IF e # NoError THEN Fail(t, Backend(e))
        ELSE Write(t, t.db, InsertRows(t.rows, s.c.version, Digest(s.c.sql),
                                       s.c.type, Display(s.c.file)))

\* A DELETE that renders its failure and returns the generic error.
StepDeleteRendered(s) ==
    LET e == IF s.fault = "bookkeeping" THEN ConnError
             ELSE DeleteError(s.exists)
        t == Issued(s, "delete")
    IN  IF e # NoError
        THEN Fail(PrintErrorPostgres(t, s.c.sql, e), EngineError)
        ELSE Write(t, t.db, DeleteRows(t.rows, s.c.version))

\* A DELETE that takes matching no row for a failure.
StepDeleteMustMatch(s) ==
    LET e == IF s.fault = "bookkeeping" THEN ConnError
             ELSE IF ~s.exists THEN DbError("42P01", 0)
             ELSE IF ~Recorded(s.rows, s.c.version) THEN DbError("02000", 0)
             ELSE NoError
        t == Issued(s, "delete")
    IN  IF e # NoError THEN Fail(t, Backend(e))
        ELSE Write(t, t.db, DeleteRows(t.rows, s.c.version))

\* query(&del, &[&version])
StepDelete(s) ==
    LET e == IF s.fault = "bookkeeping" THEN ConnError
             ELSE DeleteError(s.exists)
        t == Issued(s, "delete")
    IN  IF e # NoError THEN Fail(t, Backend(e))
        ELSE Write(t, t.db, DeleteRows(t.rows, s.c.version))

\* A commit that reports a failure after the transaction was committed.
StepCommitLate(s) ==
    LET t == [Issued(s, "commit") EXCEPT
                 !.txOpen = FALSE, !.cdb = s.db, !.crows = s.rows]
    IN  IF s.fault = "commit" THEN Fail(t, Backend(ConnError)) ELSE t

\* trx.commit(): it consumes the transaction either way.
StepCommit(s) ==
    LET t == Issued(s, "commit")
    IN  IF s.fault = "commit"
        THEN [Fail(t, Backend(ConnError)) EXCEPT
                 !.txOpen = FALSE, !.db = s.cdb, !.rows = s.crows]
        ELSE [t EXCEPT !.txOpen = FALSE, !.cdb = s.db, !.crows = s.rows]

Step(name, s) ==
    CASE name = "begin" -> StepBegin(s)
      [] name = "batch" -> StepBatch(s)
      [] name = "insert" -> StepInsert(s)
      [] name = "delete" -> StepDelete(s)
      [] OTHER -> StepCommit(s)

\* A body that goes on after a step failed.
RECURSIVE RunAll(_, _, _)
RunAll(plan, i, s) ==
    IF i > Len(plan) THEN s ELSE RunAll(plan, i + 1, Step(plan[i], s))

\* The body of a call: its steps in order, left at the first one that fails.
RECURSIVE Run(_, _, _)
Run(plan, i, s) ==
    IF i > Len(plan) THEN s
    ELSE LET t == Step(plan[i], s)
         IN  IF t.result # NoResult THEN t ELSE Run(plan, i + 1, t)

\* A return that leaves the transaction of a failed call open.
ReturnKeepsTransaction(s) ==
    IF s.result = NoResult THEN [s EXCEPT !.result = Ok] ELSE s

\* The return: a transaction the call still holds is dropped, which rolls it
\* back; a call that left at no failing step returns Ok(()).
Return(s) ==
    LET t == IF s.txOpen
             THEN [Issued(s, "discard") EXCEPT
                      !.txOpen = FALSE, !.db = s.cdb, !.rows = s.crows]
             ELSE s
    IN  IF t.result = NoResult THEN [t EXCEPT !.result = Ok] ELSE t

\* migrate without its transaction, with it in both modes, and with the
\* record written before the batch.
MigratePlanNoTx(skip) == <<"batch", "insert">>

MigratePlanAlwaysTx(skip) == <<"begin", "batch", "insert", "commit">>

MigratePlanInsertFirst(skip) ==
    IF skip THEN <<"insert", "batch">>
    ELSE <<"begin", "insert", "batch", "commit">>

\* rollback without its transaction.
RollbackPlanNoTx(skip) == <<"batch", "delete">>

\* rollback with its transaction in both modes.
RollbackPlanAlwaysTx(skip) == <<"begin", "batch", "delete", "commit">>

\* The order of the steps in migrate and in rollback.
MigratePlan(skip) ==
    IF skip THEN <<"batch", "insert">>
    ELSE <<"begin", "batch", "insert", "commit">>

RollbackPlan(skip) ==
    IF skip THEN <<"batch", "delete">>
    ELSE <<"begin", "batch", "delete", "commit">>

InPlan(plan, name) == \E i \in 1..Len(plan) : plan[i] = name

\* The failures that do not come from the statements themselves: the
\* connection is lost at begin, at the bookkeeping statement or at commit.
Faults(plan) ==
    {"none", "bookkeeping"} \cup {f \in {"begin", "commit"} : InPlan(plan, f)}

\* The last successful call per version, after a call c that returned r.
Remember(c, r) ==
    IF r = Ok THEN [lastOk EXCEPT ![c.version] = c.op] ELSE lastOk

Finish(c, s) ==
    /\ call' = c
    /\ result' = s.result
    /\ steps' = s.steps
    /\ rendered' = s.rendered
    /\ applied' = s.applied
    /\ rows0' = rows
    /\ db0' = db
    /\ rows' = s.crows
    /\ db' = s.cdb
    /\ txOpen' = s.txOpen
    /\ listing' = NoListing
    /\ failedAt' = s.failedAt
    /\ lastOk' = Remember(c, s.result)
    /\ UNCHANGED <<tableExists, outside>>

(***************************************************************************)
(* Postgresql::new.  A message is the sequence of its parts.               *)
(***************************************************************************)
WellFormed == {"postgres://u@h/a", "postgres://u@h/b", "host=h user=u"}

Urls == WellFormed \cup {"postgres://u@h:x/a", "u@h"}

TableNames == {"migrations", "schema_log"}

Connected == <<>>

PlainErrors == {<<"connection refused">>, <<"server requires encryption">>}

ConnectErrors ==
    {<<"error parsing response from server">>,
     <<"error parsing response from server", ": unexpected message">>,
     <<"db error", ": ", "error parsing response from server">>,
     <<"connection refused">>}

ConfigError == <<"invalid connection string">>

TlsError == <<"no TLS implementation">>

NoOutcome == [kind |-> "none", session |-> "", table |-> "", err |-> <<>>]

EngineOf(session, table) ==
    [kind |-> "Engine", session |-> session, table |-> table, err |-> <<>>]

ErrOf(err) == [kind |-> "Err", session |-> "", table |-> "", err |-> err]

NoConn ==
    [pc |-> "idle", url |-> "", table |-> "", attempts |-> <<>>,
     log |-> <<>>, out |-> NoOutcome]

NoDiag == [out |-> "idle"]

\* Config::from_str(url)
ConfigFromStr(url) == IF url \in WellFormed THEN Connected ELSE ConfigError

\* A test for the text anywhere in the message.
Mentions(msg, prefix) ==
    \E i \in 1..Len(msg) :
       /\ i + Len(prefix) - 1 <= Len(msg)
       /\ SubSeq(msg, i, i + Len(prefix) - 1) = prefix

\* err.to_string().starts_with(prefix)
StartsWith(msg, prefix) ==
    /\ Len(msg) >= Len(prefix)
    /\ SubSeq(msg, 1, Len(prefix)) = prefix

\* The crit! line of a failed encrypted attempt.
ConnectLog(err) ==
    IF StartsWith(err, <<"error parsing response from server">>)
    THEN <<"Could not connect to PostgreSQL: ", "check credentials">>
    ELSE <<"Could not connect to PostgreSQL: ">> \o err

Left(out, line) ==
    [conn EXCEPT !.pc = "done", !.out = out, !.log = Append(@, line)]

Tried(how, res) == Append(conn.attempts, [how |-> how, res |-> res])

NewCalled ==
    /\ conn.pc = "idle"
    /\ \E url \in Urls, table \in TableNames :
          conn' = [NoConn EXCEPT !.pc = "config", !.url = url, !.table = table]
    /\ UNCHANGED <<tableExists, rows, db, call, result, steps, rendered,
                   applied, rows0, db0, txOpen, listing, failedAt, lastOk, diag>>

NewConfig ==
    /\ conn.pc = "config"
    /\ conn' = IF ConfigFromStr(conn.url) = Connected
               THEN [conn EXCEPT !.pc = "plain"]
               ELSE Left(ErrOf(ConfigFromStr(conn.url)),
                         <<"Could not create configuration for PostgreSQL: ">>
                            \o ConfigFromStr(conn.url))
    /\ UNCHANGED <<tableExists, rows, db, call, result, steps, rendered,
                   applied, rows0, db0, txOpen, listing, failedAt, lastOk, diag>>

\* config.connect(NoTls)
NewPlain ==
    /\ conn.pc = "plain"
    /\ \E res \in {Connected} \cup PlainErrors :
          conn' = IF res = Connected
                  THEN [conn EXCEPT !.pc = "done",
                                    !.attempts = Tried("plain", res),
                                    !.out = EngineOf("plain", conn.table)]
                  ELSE [conn EXCEPT !.pc = "connector",
                                    !.attempts = Tried("plain", res)]
    /\ UNCHANGED <<tableExists, rows, db, call, result, steps, rendered,
                   applied, rows0, db0, txOpen, listing, failedAt, lastOk, diag>>

\* TlsConnector::new()
NewConnector ==
    /\ conn.pc = "connector"
    /\ \E built \in BOOLEAN :
          conn' = IF built
                  THEN [conn EXCEPT !.pc = "tls"]
                  ELSE Left(ErrOf(TlsError),
                            <<"Could not get TLS for PostgreSQL: ">> \o TlsError)
    /\ UNCHANGED <<tableExists, rows, db, call, result, steps, rendered,
                   applied, rows0, db0, txOpen, listing, failedAt, lastOk, diag>>

\* config.connect(MakeTlsConnector::new(connector))
NewTls ==
    /\ conn.pc = "tls"
    /\ \E res \in {Connected} \cup ConnectErrors :
          conn' = IF res = Connected
                  THEN [conn EXCEPT !.pc = "done",
                                    !.attempts = Tried("tls", res),
                                    !.out = EngineOf("tls", conn.table)]
                  ELSE [Left(ErrOf(res), ConnectLog(res)) EXCEPT
                           !.attempts = Tried("tls", res)]
    /\ UNCHANGED <<tableExists, rows, db, call, result, steps, rendered,
                   applied, rows0, db0, txOpen, listing, failedAt, lastOk, diag>>

\* The caller has the result; a later construction starts anew.
NewReturned ==
    /\ conn.pc = "done"
    /\ conn' = NoConn
    /\ UNCHANGED <<tableExists, rows, db, call, result, steps, rendered,
                   applied, rows0, db0, txOpen, listing, failedAt, lastOk, diag>>

(***************************************************************************)
(* print_error_postgres.  A text is the sequence of its characters; the    *)
(* position the backend reports counts characters from 1.                  *)
(***************************************************************************)
MaxText == 5

Chars == {"a", "b", " ", "\n"}

Texts == UNION {[1..n -> Chars] : n \in 0..MaxText}

\* The error: not a database error, one without a position, one with a
\* position in a query of the backend's own, one with a position in the
\* text.
ErrorKinds == {"generic", "noposition", "internal", "original"}

\* Overflow checks are on in a debug build and off in a release build.
Builds == {"debug", "release"}

\* content.lines(): the lines with the offset of their first character; a
\* line ends at "\n" and an empty last line is none.
RECURSIVE LinesFrom(_, _, _)
LinesFrom(content, start, cur) ==
    LET i == start + Len(cur) + 1
    IN  IF i > Len(content)
        THEN IF cur = <<>> THEN <<>> ELSE <<[start |-> start, text |-> cur]>>
        ELSE IF content[i] = "\n"
        THEN <<[start |-> start, text |-> cur]>> \o LinesFrom(content, i, <<>>)
        ELSE LinesFrom(content, start, Append(cur, content[i]))

Lines(content) == LinesFrom(content, 0, <<>>)

NoLine == [found |-> FALSE, start |-> 0, number |-> 0, line |-> <<>>]

\* The scan: the first line that, with its terminator, reaches the position.
RECURSIVE RelevantFrom(_, _, _)
RelevantFrom(lines, k, position) ==
    IF k > Len(lines) THEN NoLine
    ELSE IF position <= lines[k].start + Len(lines[k].text) + 1
    THEN [found |-> TRUE, start |-> lines[k].start, number |-> k,
          line |-> lines[k].text]
    ELSE RelevantFrom(lines, k + 1, position)

\* get_relevant_line(content, position): (line start, line number, line)
GetRelevantLine(content, position) ==
    RelevantFrom(Lines(content), 1, position)

IsWhitespace(c) == c = " "

RECURSIVE LeadingSpaces(_)
LeadingSpaces(line) ==
    IF line = <<>> \/ ~IsWhitespace(Head(line)) THEN 0
    ELSE 1 + LeadingSpaces(Tail(line))

RECURSIVE TrailingSpaces(_)
TrailingSpaces(line) ==
    IF line = <<>> \/ ~IsWhitespace(line[Len(line)]) THEN 0
    ELSE 1 + TrailingSpaces(SubSeq(line, 1, Len(line) - 1))

\* result.2.trim(): whitespace is removed at both ends.
Trim(line) ==
    IF LeadingSpaces(line) = Len(line) THEN <<>>
    ELSE SubSeq(line, LeadingSpaces(line) + 1, Len(line) - TrailingSpaces(line))

\* The distance taken from the line's start instead of the one before it.
SpacesFromStart(position, start) == position - start

\* position - result.0 - 1; below 0 the subtraction overflows.
Spaces(position, start) == position - start - 1

\* spaces as usize - (result.2.len() - trimmed.len()); below 0 it overflows.
SpacesTrimmed(spaces, line) == spaces - (Len(line) - Len(Trim(line)))

\* An overflowing subtraction panics in a debug build; in a release build
\* it wraps to a number near the top of its type, and building the caret
\* line of that many spaces exhausts the memory.
Overflow(build) == IF build = "debug" THEN "panic" ELSE "abort"

RenderError(kind, content, position, build) ==
    LET base == [out |-> "", kind |-> kind, content |-> content,
                 position |-> position, build |-> build, number |-> 0,
                 start |-> 0, line |-> <<>>, trimmed |-> <<>>, column |-> 0,
                 caret |-> 0]
        r == GetRelevantLine(content, position)
        spaces == Spaces(position, r.start)
        spaces_trimmed == SpacesTrimmed(spaces, r.line)
        loc == [base EXCEPT !.number = r.number, !.start = r.start,
                            !.line = r.line, !.trimmed = Trim(r.line),
                            !.column = spaces]
    IN  IF kind = "generic" THEN [base EXCEPT !.out = "message"]
        ELSE IF kind \in {"noposition", "internal"} \/ ~r.found
        THEN [base EXCEPT !.out = "code"]
        ELSE IF spaces < 0 \/ spaces_trimmed < 0
        THEN [loc EXCEPT !.out = Overflow(build)]
        ELSE [loc EXCEPT !.out = "printed", !.caret = spaces_trimmed]

\* The positions an error of the kind can carry for the text: a character
\* of it or the end of it.
Positions(kind, content) ==
    IF kind \in {"internal", "original"} THEN 1..(Len(content) + 1) ELSE {0}

PrintError ==
    /\ diag.out = "idle"
    /\ \E kind \in ErrorKinds, content \in Texts, build \in Builds :
          \E position \in Positions(kind, content) :
             diag' = RenderError(kind, content, position, build)
    /\ UNCHANGED <<tableExists, rows, db, call, result, steps, rendered,
                   applied, rows0, db0, txOpen, listing, failedAt, lastOk, conn>>

\* The operator has read what was printed.
PrintErrorRead ==
    /\ diag.out # "idle"
    /\ diag' = NoDiag
    /\ UNCHANGED <<tableExists, rows, db, call, result, steps, rendered,
                   applied, rows0, db0, txOpen, listing, failedAt, lastOk, conn>>

(***************************************************************************)
(* The operations of the engine.                                           *)
(***************************************************************************)
Init ==
    /\ tableExists = FALSE
    /\ rows = {}
    /\ db = {}
    /\ call = NoCall
    /\ result = NoResult
    /\ steps = <<>>
    /\ rendered = <<>>
    /\ applied = 0
    /\ rows0 = {}
    /\ db0 = {}
    /\ txOpen = FALSE
    /\ listing = NoListing
    /\ failedAt = "none"
    /\ lastOk = [v \in Versions |-> "none"]
    /\ conn = NoConn
    /\ diag = NoDiag

\* DROP TABLE and CREATE TABLE instead of CREATE TABLE IF NOT EXISTS.
CreateTableRowsAnew(exists, rws) == {}

\* The runner starts a call only when the previous one has returned and its
\* result has been taken.
Idle == call = NoCall

\* CREATE TABLE IF NOT EXISTS "<table>" (...)
CreateTableRows(exists, rws) == IF exists THEN rws ELSE {}

CreateMigrationTable ==
    /\ Idle
    /\ call' = [NoCall EXCEPT !.op = "create_migration_table"]
    /\ result' = Ok
    /\ tableExists' = TRUE
    /\ rows' = CreateTableRows(tableExists, rows)
    /\ steps' = <<"create">>
    /\ rendered' = <<>>
    /\ applied' = 0
    /\ rows0' = rows
    /\ db0' = db
    /\ listing' = NoListing
    /\ failedAt' = "none"
    /\ UNCHANGED <<db, txOpen, lastOk, outside>>

GetMigrations ==
    /\ listing' = IF tableExists
                  THEN [op |-> "get_migrations", type |-> "", res |-> "Ok",
                        val |-> SelectMigrations(rows)]
                  ELSE [op |-> "get_migrations", type |-> "", res |-> "Err",
                        val |-> <<>>]
    /\ UNCHANGED <<tableExists, rows, db, call, result, steps, rendered,
                   applied, rows0, db0, txOpen, failedAt, lastOk, outside>>

GetMigrationsWithHashes(mtype) ==
    /\ listing' = IF tableExists
                  THEN [op |-> "get_migrations_with_hashes", type |-> mtype,
                        res |-> "Ok", val |-> SelectWithHashes(rows, mtype)]
                  ELSE [op |-> "get_migrations_with_hashes", type |-> mtype,
                        res |-> "Err", val |-> <<>>]
    /\ UNCHANGED <<tableExists, rows, db, call, result, steps, rendered,
                   applied, rows0, db0, txOpen, failedAt, lastOk, outside>>

Migrate(file, version, mtype, sql, skip, fault, keep) ==
    LET c == [op |-> "migrate", file |-> file, version |-> version,
              type |-> mtype, sql |-> sql, skip |-> skip]
        plan == MigratePlan(skip)
    IN  Finish(c, Return(Run(plan, 1, Start(c, tableExists, fault, keep))))

\* rollback takes no migration type and does not use its file argument.
Rollback(file, version, sql, skip, fault, keep) ==
    LET c == [op |-> "rollback", file |-> file, version |-> version,
              type |-> "", sql |-> sql, skip |-> skip]
        plan == RollbackPlan(skip)
    IN  Finish(c, Return(Run(plan, 1, Start(c, tableExists, fault, keep))))

\* The runner takes the result of the call that returned and goes on: the
\* engine keeps nothing of a call after its return.
RunnerProceeds ==
    /\ call # NoCall
    /\ call' = NoCall
    /\ result' = NoResult
    /\ steps' = <<>>
    /\ rendered' = <<>>
    /\ applied' = 0
    /\ rows0' = {}
    /\ db0' = {}
    /\ listing' = NoListing
    /\ failedAt' = "none"
    /\ UNCHANGED <<tableExists, rows, db, txOpen, lastOk, outside>>

CallMigrate ==
    /\ Idle
    /\ \E file \in Files, version \in Versions, mtype \in Types,
          sql \in SqlTexts, skip \in BOOLEAN :
          \E fault \in Faults(MigratePlan(skip)),
             keep \in (IF skip THEN BOOLEAN ELSE {TRUE}) :
             Migrate(file, version, mtype, sql, skip, fault, keep)

CallRollback ==
    /\ Idle
    /\ \E file \in Files, version \in Versions, sql \in SqlTexts,
          skip \in BOOLEAN :
          \E fault \in Faults(RollbackPlan(skip)),
             keep \in (IF skip THEN BOOLEAN ELSE {TRUE}) :
             Rollback(file, version, sql, skip, fault, keep)

Next ==
    \/ CreateMigrationTable
    \/ RunnerProceeds
    \/ GetMigrations
    \/ \E mtype \in Types : GetMigrationsWithHashes(mtype)
    \/ CallMigrate
    \/ CallRollback

Spec == Init /\ [][Next]_vars

NextNew ==
    \/ NewCalled
    \/ NewConfig
    \/ NewPlain
    \/ NewConnector
    \/ NewTls
    \/ NewReturned

\* The construction of an engine, before any operation on it.
SpecNew == Init /\ [][NextNew]_vars

NextDiag ==
    \/ PrintError
    \/ PrintErrorRead

\* The renderer on every text, error and position.
SpecDiag == Init /\ [][NextDiag]_vars

(***************************************************************************)
(* Properties.  They speak of the call that has returned: call holds its   *)
(* arguments, rows0 and db0 the database it started from.                  *)
(***************************************************************************)
IsMigrate == call.op = "migrate"
IsRollback == call.op = "rollback"
IsExecution == IsMigrate \/ IsRollback

StepIssued(name) == \E i \in 1..Len(steps) : steps[i] = name

\* What the backend answers to the call's batch.
BatchOutcome == BatchExecute(db0, call.sql)

\* The call sent its batch and the batch failed / ran completely.
BatchFailed == IsExecution /\ StepIssued("batch") /\ ~BatchOutcome.ok
BatchApplied == IsExecution /\ StepIssued("batch") /\ BatchOutcome.ok

\* The record a migrate call writes.
CallRecord ==
    Record(call.version, Digest(call.sql), call.type, Display(call.file))

\* The bookkeeping change of the call, applied to the table it started from.
BookkeepingOf(rws) ==
    IF IsMigrate THEN rws \cup {CallRecord}
    ELSE {r \in rws : r.migration # call.version}

\* C1 as stated: when the batch of a migrate call with
\* skip_transaction=false fails, the table holds no row for the version
\* after the call and nothing the batch did is visible.
C1_NoRowForVersion ==
    (IsMigrate /\ ~call.skip /\ BatchFailed) =>
        /\ ~Recorded(rows, call.version)
        /\ db = db0

\* C1 amended: when the batch of a migrate call with skip_transaction=false
\* fails at any statement, the bookkeeping table is after the call exactly
\* as it was before it (no row for the version unless an earlier call
\* recorded one) and nothing the batch did is visible.
C1_FailedBatchLeavesNothing ==
    (IsMigrate /\ ~call.skip /\ BatchFailed) =>
        /\ rows = rows0
        /\ (~Recorded(rows0, call.version) => ~Recorded(rows, call.version))
        /\ db = db0

\* A three-statement batch failed at its middle statement, after a
\* statement that changed the schema, for a version not recorded.
C1_Witness ==
    /\ IsMigrate /\ ~call.skip /\ BatchFailed
    /\ Len(call.sql) = 3 /\ applied = 1
    /\ BatchOutcome.db # db0
    /\ ~Recorded(rows, call.version)
    /\ db = db0

FullySucceeded ==
    /\ result = Ok
    /\ BatchOutcome.ok
    /\ db = BatchOutcome.db
    /\ rows = BookkeepingOf(rows0)

FullyFailed ==
    /\ result # Ok
    /\ db = db0
    /\ rows = rows0

\* C2 as stated: every migrate or rollback call, in either mode, fully
\* succeeds or fully fails.
C2_AllOrNothingBothModes == IsExecution => (FullySucceeded \/ FullyFailed)

\* C2 amended: every migrate or rollback call with skip_transaction=false,
\* whichever step fails (begin, batch, bookkeeping statement, commit),
\* either fully succeeds (Ok, batch applied, row written / removed) or fully
\* fails (Err, nothing of the batch applied, table unchanged).
C2_AllOrNothingInTransaction ==
    (IsExecution /\ ~call.skip) => (FullySucceeded \/ FullyFailed)

\* A rollback in a transaction whose batch ran and changed the schema and
\* whose commit failed: nothing is left of it.
C2_Witness ==
    /\ IsRollback /\ ~call.skip
    /\ steps = <<"begin", "batch", "delete", "commit">>
    /\ result # Ok
    /\ BatchOutcome.db # db0
    /\ Recorded(rows0, call.version)
    /\ FullyFailed

\* C3: in both modes the bookkeeping statement is issued only after the
\* batch has run completely without error; a call whose batch fails leaves
\* the table as it was, so a call changes the table only when its batch was
\* fully applied.
C3_BookkeepingAfterBatch ==
    IsExecution =>
        /\ \A i \in 1..Len(steps) :
              steps[i] \in {"insert", "delete"} =>
                 /\ \E j \in 1..(i - 1) : steps[j] = "batch"
                 /\ BatchOutcome.ok
                 /\ applied = Len(call.sql)
        /\ (~BatchOutcome.ok => rows = rows0)
        /\ (rows # rows0 => BatchApplied /\ applied = Len(call.sql))

\* A migrate outside a transaction wrote its row after a batch of several
\* statements ran completely.
C3_Witness ==
    /\ IsMigrate /\ call.skip
    /\ steps = <<"batch", "insert">>
    /\ Len(call.sql) > 1 /\ applied = Len(call.sql)
    /\ rows # rows0

\* C4: a successful rollback(V) removes exactly the record whose migration
\* is V, leaves every other record as it was, and a following
\* get_migrations does not contain V.
C4_RollbackRemovesOnlyV ==
    (IsRollback /\ result = Ok) =>
        /\ ~Recorded(rows, call.version)
        /\ \A r \in rows0 : r.migration # call.version => r \in rows
        /\ rows \subseteq rows0
        /\ (listing.op = "get_migrations" =>
               /\ listing.res = "Ok"
               /\ \A i \in 1..Len(listing.val) :
                     listing.val[i] # call.version)

\* V was recorded (a migrate of V had succeeded) next to another version;
\* the rollback removed it and get_migrations was called after it.
C4_Witness ==
    /\ IsRollback /\ result = Ok
    /\ Recorded(rows0, call.version)
    /\ Cardinality(rows0) = 2
    /\ Cardinality(rows) = 1
    /\ listing.op = "get_migrations"
    /\ Len(listing.val) = 1

UniqueViolation == Backend(DbError("23505", 0))

OneRecordPerMigration ==
    \A r, q \in rows : r.migration = q.migration => r = q

\* C5 as stated: at most one record per identifier, records never change,
\* and a migrate call for a recorded version fails with the
\* unique-violation error and leaves the record as it was.
C5_ReapplyIsUniqueViolation ==
    /\ OneRecordPerMigration
    /\ (IsMigrate /\ Recorded(rows0, call.version)) =>
           /\ result = UniqueViolation
           /\ rows = rows0

\* C5 amended: the table holds at most one record per identifier; no call
\* changes the hash, type or file_name of a record that stays; a migrate
\* call for a recorded version never succeeds and leaves the table as it
\* was, and it fails with the unique-violation error whenever its INSERT
\* reaches the table (it fails earlier when begin or its batch fails, and
\* with the connection error when the connection is lost at the INSERT).
C5_UniqueAndImmutable ==
    /\ OneRecordPerMigration
    /\ (call # NoCall =>
           \A r \in rows0 : Recorded(rows, r.migration) => r \in rows)
    /\ (IsMigrate /\ Recorded(rows0, call.version)) =>
           /\ result # Ok
           /\ rows = rows0
           /\ (StepIssued("insert") =>
                  result \in {UniqueViolation, Backend(ConnError)})
           /\ (result = UniqueViolation => failedAt = "insert")

\* A recorded version is applied again with another text, type and file:
\* the INSERT fails and the record stays.
C5_Witness ==
    /\ IsMigrate /\ BatchApplied
    /\ \E r \in rows0 :
          /\ r.migration = call.version
          /\ r.hash # Digest(call.sql)
          /\ r.type # call.type
          /\ r.file_name # Display(call.file)
          /\ r \in rows
    /\ result = UniqueViolation
    /\ Cardinality(rows) = 2

\* C6: with skip_transaction=true a migrate call whose batch fails after an
\* earlier statement succeeded returns the engine error, writes no row and
\* opens and undoes nothing: the schema is what the backend left, either the
\* one before the call or the one the earlier statements made (the witness
\* is the non-atomic outcome).
C6_SkipModeBatchFailure ==
    (IsMigrate /\ call.skip /\ BatchFailed /\ applied >= 1) =>
        /\ result = EngineError
        /\ rows = rows0
        /\ steps = <<"batch">>
        /\ db \in {db0, BatchOutcome.db}

\* The call returned an error, the earlier statement's effect is in the
\* schema and there is no row for the version.
C6_Witness ==
    /\ IsMigrate /\ call.skip /\ BatchFailed /\ applied >= 1
    /\ result = EngineError
    /\ db # db0
    /\ db = BatchOutcome.db
    /\ tableExists
    /\ ~Recorded(rows, call.version)

Range(f) == {f[i] : i \in DOMAIN f}

\* C7: after a successful migrate, in both modes, get_migrations_with_hashes
\* called with the call's type succeeds and returns for the version exactly
\* one tuple, with the digest of the call's text and the call's file path;
\* get_migrations_with_hashes returns the records of the requested type and
\* no others.
C7_HashRoundTrip ==
    /\ (listing.op = "get_migrations_with_hashes" /\ listing.res = "Ok") =>
           Range(listing.val) =
              {<<r.migration, r.hash, r.file_name>> :
                  r \in {q \in rows : q.type = listing.type}}
    /\ (IsMigrate /\ result = Ok
          /\ listing.op = "get_migrations_with_hashes"
          /\ listing.type = call.type) =>
           /\ listing.res = "Ok"
           /\ \E i \in 1..Len(listing.val) :
                 /\ listing.val[i] = <<call.version, Digest(call.sql),
                                       Display(call.file)>>
                 /\ \A j \in 1..Len(listing.val) :
                       listing.val[j][1] = call.version => j = i

\* The listing after a successful migrate holds the new tuple while a record
\* of the other type is left out of it.
C7_Witness ==
    /\ IsMigrate /\ result = Ok
    /\ listing.op = "get_migrations_with_hashes"
    /\ listing.type = call.type
    /\ Len(listing.val) = 1
    /\ listing.val[1] = <<call.version, Digest(call.sql), "m/b.sql">>
    /\ Cardinality(rows) = 2

C9_DescendingListing ==
    listing.op = "get_migrations" =>
        /\ (listing.res = "Ok") = tableExists
        /\ (listing.res = "Ok" =>
               /\ Range(listing.val) = {r.migration : r \in rows}
               /\ Len(listing.val) = Cardinality(rows)
               /\ \A i, j \in 1..Len(listing.val) :
                     i < j => StrLess(listing.val[j], listing.val[i])
               /\ (rows = {} => listing.val = <<>>))

\* "10" was applied after "2" and is listed after it.
C9_Witness ==
    /\ listing.op = "get_migrations"
    /\ listing.val = <<(<<2>>), (<<1, 0>>)>>
    /\ IsMigrate /\ result = Ok /\ call.version = <<1, 0>>

IssuedSteps == SelectSeq(steps, LAMBDA x : x # "discard")

Bookkeeping == IF IsMigrate THEN "insert" ELSE "delete"

ExpectedOrder ==
    IF call.skip THEN <<"batch", Bookkeeping>>
    ELSE <<"begin", "batch", Bookkeeping, "commit">>

\* C13: the steps of a call run in the fixed order, each at most once
\* (begin, batch, bookkeeping, commit in a transaction; batch, bookkeeping,
\* and neither begin nor commit, outside one); the call ends at the first
\* step that fails, with no step after it and no second attempt, and when
\* begin fails neither the batch nor the bookkeeping statement runs.
C13_FixedOrderNoRetry ==
    IsExecution =>
        /\ Len(IssuedSteps) \in 1..Len(ExpectedOrder)
        /\ \A i \in 1..Len(IssuedSteps) : IssuedSteps[i] = ExpectedOrder[i]
        /\ (result = Ok) = (failedAt = "none")
        /\ (failedAt = "none" => IssuedSteps = ExpectedOrder)
        /\ (failedAt # "none" => IssuedSteps[Len(IssuedSteps)] = failedAt)
        /\ (StepIssued("batch") /\ ~BatchOutcome.ok => failedAt = "batch")
        /\ (failedAt = "begin" =>
               /\ steps = <<"begin">>
               /\ applied = 0
               /\ db = db0
               /\ rows = rows0)

\* begin failed in a call whose batch would have run and whose row would
\* have been written.
C13_Witness ==
    /\ IsMigrate /\ ~call.skip
    /\ failedAt = "begin"
    /\ steps = <<"begin">>
    /\ BatchOutcome.ok
    /\ BatchOutcome.db # db0
    /\ tableExists
    /\ ~Recorded(rows0, call.version)

\* C14: when a migrate or rollback call returns the session holds no open
\* transaction; commit is issued only after the batch and the bookkeeping
\* statement succeeded; when the batch or the bookkeeping statement fails in
\* a transaction, the transaction is rolled back and never committed.
C14_NoOpenTransaction ==
    IsExecution =>
        /\ ~txOpen
        /\ (StepIssued("commit") =>
               /\ ~call.skip
               /\ BatchOutcome.ok
               /\ StepIssued(Bookkeeping)
               /\ failedAt \in {"none", "commit"})
        /\ ((~call.skip /\ failedAt \in {"batch", "insert", "delete"}) =>
               /\ steps[Len(steps)] = "discard"
               /\ ~StepIssued("commit")
               /\ db = db0
               /\ rows = rows0)
        /\ (StepIssued("discard") =>
               /\ StepIssued("begin")
               /\ failedAt \in {"batch", "insert", "delete"})

\* The INSERT of a migrate in a transaction failed after its batch had
\* changed the schema: the transaction was rolled back.
C14_Witness ==
    /\ IsMigrate
    /\ steps = <<"begin", "batch", "insert", "discard">>
    /\ BatchOutcome.db # db0
    /\ db = db0
    /\ ~txOpen

\* C15: when begin, the bookkeeping statement or commit fails, the renderer
\* is not invoked and the call returns the backend's own error, not the
\* generic engine error.
C15_OtherFailuresVerbatim ==
    (IsExecution /\ failedAt \in {"begin", "insert", "delete", "commit"}) =>
        /\ rendered = <<>>
        /\ result.kind = "Backend"
        /\ result.err # NoError
        /\ (failedAt \in {"begin", "commit"} => result.err = ConnError)
        /\ (failedAt = "insert" =>
               result.err \in
                  {ConnError, InsertError(tableExists, rows0, call.version)})
        /\ (failedAt = "delete" =>
               result.err \in {ConnError, DeleteError(tableExists)})

\* The DELETE of a rollback failed on the missing table after its batch ran.
C15_Witness ==
    /\ IsRollback
    /\ failedAt = "delete"
    /\ BatchApplied
    /\ result = Backend(DbError("42P01", 0))
    /\ rendered = <<>>

\* C17: for every version, a record exists exactly when the last call
\* naming it that returned Ok was a migrate; it holds after every sequence
\* of calls, so after those that all use skip_transaction=false.
C17_RecordIffLastOkMigrate ==
    \A v \in Versions : Recorded(rows, v) = (lastOk[v] = "migrate")

\* A version was migrated and rolled back, and a migrate of it in a
\* transaction has just failed at commit: there is no record of it, while
\* the other version is recorded.
C17_Witness ==
    /\ IsMigrate /\ ~call.skip /\ failedAt = "commit"
    /\ lastOk[call.version] = "rollback"
    /\ ~Recorded(rows, call.version)
    /\ \E v \in Versions : lastOk[v] = "migrate" /\ Recorded(rows, v)

\* C18: with skip_transaction=true, when the batch succeeds and the
\* bookkeeping statement then fails, the call returns the backend's error,
\* what the batch did stays and the table is as it was (no record written
\* by migrate, the record still there after rollback); a migrate of a
\* recorded version whose batch succeeds always ends so.
C18_SkipModeBookkeepingFailure ==
    /\ (IsExecution /\ call.skip /\ BatchApplied
          /\ failedAt \in {"insert", "delete"}) =>
           /\ result.kind = "Backend"
           /\ db = BatchOutcome.db
           /\ rows = rows0
    /\ (IsMigrate /\ call.skip /\ BatchApplied
          /\ Recorded(rows0, call.version)) =>
           /\ failedAt = "insert"
           /\ result # Ok

\* The version was recorded; the batch changed the schema, the INSERT
\* failed on the key, and the change stayed.
C18_Witness ==
    /\ IsMigrate /\ call.skip /\ BatchApplied
    /\ Recorded(rows0, call.version)
    /\ result = UniqueViolation
    /\ BatchOutcome.db # db0
    /\ db = BatchOutcome.db
    /\ rows = rows0

\* C19: on an existing bookkeeping table, a rollback of a version without a
\* record runs its batch all the same (unless begin fails), and when the
\* batch succeeds the DELETE matching no row is no error: the call returns
\* Ok unless the connection is lost at the DELETE or at commit, and the
\* table is as it was.
C19_RollbackOfUnrecorded ==
    (IsRollback /\ tableExists /\ ~Recorded(rows0, call.version)) =>
        /\ (failedAt # "begin" => StepIssued("batch"))
        /\ rows = rows0
        /\ (BatchApplied =>
               /\ StepIssued("delete")
               /\ (failedAt = "delete" => result = Backend(ConnError))
               /\ (failedAt = "commit" => result = Backend(ConnError))
               /\ (failedAt = "none" =>
                      /\ result = Ok
                      /\ db = BatchOutcome.db))

\* A rollback of an unrecorded version returned Ok: its batch changed the
\* schema and the table, which holds another record, is as it was.
C19_Witness ==
    /\ IsRollback /\ result = Ok
    /\ ~Recorded(rows0, call.version)
    /\ rows0 # {}
    /\ rows = rows0
    /\ db # db0

Hows == [i \in DOMAIN conn.attempts |-> conn.attempts[i].how]

\* C12: new attempts the unencrypted handshake first and the encrypted one
\* only after the unencrypted one failed; it returns an engine exactly when
\* an attempt succeeded, bound to that attempt's session and to the table
\* name; when both attempts fail it returns the encrypted attempt's error and
\* logs "check credentials" when that error's text starts with "error
\* parsing response from server", the error's text otherwise; on a malformed
\* connection string it returns the configuration error and attempts no
\* handshake.
C12_HandshakeOrder ==
    /\ Hows \in {<<>>, <<"plain">>, <<"plain", "tls">>}
    /\ (Len(conn.attempts) = 2 => conn.attempts[1].res # Connected)
    /\ (conn.pc # "done" => conn.out = NoOutcome)
    /\ conn.pc = "done" =>
          /\ (conn.out.kind = "Engine") =
                (\E i \in DOMAIN conn.attempts : conn.attempts[i].res = Connected)
          /\ (conn.out.kind = "Engine" =>
                 /\ conn.attempts[Len(conn.attempts)].res = Connected
                 /\ conn.out.session = conn.attempts[Len(conn.attempts)].how
                 /\ conn.out.table = conn.table
                 /\ conn.log = <<>>)
          /\ ((Len(conn.attempts) = 2 /\ conn.attempts[2].res # Connected) =>
                 /\ conn.out = ErrOf(conn.attempts[2].res)
                 /\ conn.log =
                       <<IF conn.attempts[2].res[1]
                               = "error parsing response from server"
                         THEN <<"Could not connect to PostgreSQL: ",
                                "check credentials">>
                         ELSE <<"Could not connect to PostgreSQL: ">>
                                 \o conn.attempts[2].res>>)
          /\ (conn.url \notin WellFormed =>
                 /\ conn.out = ErrOf(ConfigError)
                 /\ conn.attempts = <<>>)

\* Both attempts failed, the encrypted one with an error that mentions the
\* parsing text without starting with it: the error is returned and logged
\* as it is.
C12_Witness ==
    /\ conn.pc = "done"
    /\ Hows = <<"plain", "tls">>
    /\ conn.out.kind = "Err"
    /\ conn.out.err = <<"db error", ": ", "error parsing response from server">>
    /\ conn.log = <<<<"Could not connect to PostgreSQL: ">> \o conn.out.err>>

\* The renderer was given a position in the text and found its line.
Found == diag.out \in {"printed", "panic", "abort"}

\* The position is that of a character of a line.
InLine ==
    /\ diag.out # "idle"
    /\ diag.kind = "original"
    /\ diag.position \in 1..Len(diag.content)
    /\ diag.content[diag.position] # "\n"

Addressed == diag.content[diag.position]

NewlinesBefore ==
    {i \in 1..(diag.position - 1) : diag.content[i] = "\n"}

\* The offset of the first character of the line the position is in.
LineStart ==
    IF NewlinesBefore = {} THEN 0
    ELSE CHOOSE i \in NewlinesBefore : \A j \in NewlinesBefore : j <= i

\* C11 as stated: the line is the one that contains the position, and the
\* character of the line at the 0-based index column - 1 is the one the
\* position addresses.
C11_ColumnMinusOne ==
    InLine =>
        /\ Found
        /\ diag.number = Cardinality(NewlinesBefore) + 1
        /\ diag.column - 1 \in 0..(Len(diag.line) - 1)
        /\ diag.line[(diag.column - 1) + 1] = Addressed

\* C11 amended: the line is the one that contains the position, and the
\* character of the line at the 0-based index column is the one the
\* position addresses; when the caret line is printed for a line without
\* trailing whitespace, the caret is under that character of the trimmed
\* line.
C11_ColumnAddresses ==
    InLine =>
        /\ Found
        /\ diag.number = Cardinality(NewlinesBefore) + 1
        /\ diag.start = LineStart
        /\ diag.start + diag.column + 1 = diag.position
        /\ diag.column \in 0..(Len(diag.line) - 1)
        /\ diag.line[diag.column + 1] = Addressed
        /\ \A i \in 1..Len(diag.line) :
              diag.line[i] = diag.content[diag.start + i]
        /\ ((diag.out = "printed" /\ TrailingSpaces(diag.line) = 0) =>
               diag.trimmed[diag.caret + 1] = Addressed)

\* The position is that of the b of the second line, behind a leading
\* space: column 1, caret at 0.
C11_Witness ==
    /\ InLine
    /\ diag.out = "printed"
    /\ diag.number = 2
    /\ diag.column = 1
    /\ diag.caret = 0
    /\ Addressed = "b"
    /\ diag.line[1] = " "

\* C16 as stated, for a position at or behind the leading whitespace of its
\* line: the caret line is printed and its indentation is the column less
\* the number of leading whitespace characters, whatever whitespace ends
\* the line.
C16_CaretIndentation ==
    (diag.out # "idle" /\ Found /\ diag.column >= LeadingSpaces(diag.line)) =>
        /\ diag.out = "printed"
        /\ diag.caret = diag.column - LeadingSpaces(diag.line)

\* C20 as stated: whenever a line is found neither subtraction goes below
\* 0, and the rendering completes.
C20_NoUnderflow ==
    (diag.out # "idle" /\ Found) =>
        /\ diag.position - diag.start - 1 >= 0
        /\ diag.column - (Len(diag.line) - Len(diag.trimmed)) >= 0
        /\ diag.out = "printed"

====
